---- MODULE Spec2Model ----
(***************************************************************************)
(* Reconciliation engine of scripts/generate_project_items.py: the plan    *)
(* returned by the generative model is walked by main(), which reconciles  *)
(* milestones (get_or_create_milestone), then issues (create_github_issue) *)
(* and links every created issue to the project board                     *)
(* (add_issue_to_github_project).  Every call to the tracker or to the gh  *)
(* command is one step; each may fail.                                     *)
(***************************************************************************)
EXTENDS Integers, Sequences, FiniteSets, TLC

\* ---------------------------------------------------------------- bounds
MaxMilestones == 2
MaxTasks == 2
MaxFaults == 1
MaxEnvSteps == 1

\* ------------------------------------------------------------- constants
Runs == {1, 2}
REPO_MAP == {"frontend", "backend"}
GITHUB_ORG_NAME == "org"
GITHUB_PROJECT_NAME == "board"

\* None of Python, for a Milestone object
NoMilestone == [repo |-> "", number |-> 0]

\* mutant: `x is None` in place of `not x`, which lets the empty string through
Falsy_NoneOnly(s) == FALSE

\* `not x` of Python for the strings of the plan (None and "" alike)
Falsy(s) == s = ""

MaxConcPlan == 1

\* ------------------------------------------------------- plans (inputs)
MilestoneSpecs ==
    { [name |-> "",   target_repositories |-> <<"backend">>],
      [name |-> "M1", target_repositories |-> <<"frontend", "backend">>],
      [name |-> "M1", target_repositories |-> <<"frontend">>],
      [name |-> "M2", target_repositories |-> <<"other", "backend">>] }

Task(title, repo, assignee, priority, granularity, milestone) ==
    [title |-> title, target_repository |-> repo, assignee_candidate |-> assignee,
     priority |-> priority, task_granularity |-> granularity,
     milestone_name |-> milestone]

TaskSpecs ==
    { Task("",   "backend",  "unassigned", "high", "",      "M1"),
      Task("T1", "",         "unassigned", "high", "",      "M1"),
      Task("T1", "backend",  "unassigned", "high", "",      "M1"),
      Task("T1", "backend",  "unassigned", "",     "",      "M1"),
      Task("T1", "backend",  "unassigned", "high", "",      "M2"),
      Task("T2", "backend",  "unassigned", "high", "",      "M1"),
      Task("T1", "frontend", "backend",    "low",  "small", "") }

SeqsUpTo(S, n) == UNION { [1..k -> S] : k \in 0..n }

\* what `gh project list --owner org --format json` can print under "projects"
ProjectLists ==
    { << [owner |-> "org", title |-> "other", id |-> "P1", number |-> 1],
         [owner |-> "org", title |-> "board", id |-> "P2", number |-> 2] >>,
      << [owner |-> "org", title |-> "other", id |-> "P1", number |-> 1],
         [owner |-> "user", title |-> "board", id |-> "P3", number |-> 3] >> }

VARIABLES
    milestones_data,            \* llm_output['milestones']
    tasks_data,                 \* llm_output['tasks']
    all_projects,               \* the boards the gh command lists
    repo_milestones,            \* tracker: repository -> milestones in listing order
    repo_issues,                \* tracker: repository -> issues, by number
    project_items,              \* board: the items added, in order
    pc,                         \* run -> position in main()
    mi, ri, ti,                 \* run -> loop indexes (milestone spec, repo key, task)
    created_milestone_objects,  \* run -> name -> repo key -> Milestone
    milestone_obj_for_issue,    \* run -> Milestone passed to create_github_issue
    created_issue,              \* run -> number of the issue just created (0: none)
    project_number,             \* run -> number of the board found (0: none)
    calls,                      \* log of the calls made to the tracker and the board
    faults,                     \* number of backend errors injected so far
    envSteps,                   \* number of changes made by users of the tracker
    concurrent                  \* whether the two runs overlap

vars == << milestones_data, tasks_data, all_projects, repo_milestones, repo_issues,
           project_items, pc, mi, ri, ti, created_milestone_objects,
           milestone_obj_for_issue, created_issue, project_number, calls, faults,
           envSteps, concurrent >>

plan == << milestones_data, tasks_data, all_projects, concurrent >>
backend == << repo_milestones, repo_issues, project_items >>
locals == << milestone_obj_for_issue, created_issue, project_number >>

\* ---------------------------------------------------------------- helpers
\* d[k] = v of a Python dict, d a function
DictSet(d, k, v) == [x \in (DOMAIN d) \cup {k} |-> IF x = k THEN v ELSE d[x]]

EmptyDict == [x \in {} |-> 0]

\* d.get(k), with None as the default
DictGet(d, k, none) == IF k \in DOMAIN d THEN d[k] ELSE none

Indexes(s) == 1..Len(s)

\* mutant: no label is derived from the priority
labels_to_add_NoPriority(issue_data) ==
    (IF issue_data.assignee_candidate # "unassigned"
        THEN << <<"role", issue_data.assignee_candidate>> >> ELSE << >>)
    \o
    (IF ~Falsy(issue_data.task_granularity)
        THEN << <<"granularity", issue_data.task_granularity>> >> ELSE << >>)

\* labels_to_add of create_github_issue, in the order the code appends them
labels_to_add(issue_data) ==
    (IF issue_data.assignee_candidate # "unassigned"
        THEN << <<"role", issue_data.assignee_candidate>> >> ELSE << >>)
    \o
    (IF ~Falsy(issue_data.priority)
        THEN << <<"priority", issue_data.priority>> >> ELSE << >>)
    \o
    (IF ~Falsy(issue_data.task_granularity)
        THEN << <<"granularity", issue_data.task_granularity>> >> ELSE << >>)

Range(s) == { s[i] : i \in DOMAIN s }

\* mutant: the milestones are listed with state='open'
FirstMilestone_OpenOnly(repo, name) ==
    LET hits == { i \in Indexes(repo_milestones[repo]) :
                    /\ repo_milestones[repo][i].title = name
                    /\ repo_milestones[repo][i].state = "open" }
    IN IF hits = {} THEN 0 ELSE CHOOSE i \in hits : \A j \in hits : i <= j

\* repo.get_milestones(state='all') scanned for the title: number of the first
\* milestone in listing order whose title is the name, 0 when there is none
FirstMilestone(repo, name) ==
    LET hits == { i \in Indexes(repo_milestones[repo]) :
                    repo_milestones[repo][i].title = name }
    IN IF hits = {} THEN 0 ELSE CHOOSE i \in hits : \A j \in hits : i <= j

\* mutant: the search always asks for issues without milestone
milestone_filter_arg_AlwaysNone(m) == 0

\* milestone_filter_arg: the number of the Milestone, 0 for 'none'
milestone_filter_arg(m) == IF m # NoMilestone THEN m.number ELSE 0

\* mutant: the issue is created without the milestone argument
milestone_obj_for_creation_NotSet(m) == 0

\* milestone_obj_for_creation: the number of the Milestone, 0 for NotSet
milestone_obj_for_creation(m) == IF m # NoMilestone THEN m.number ELSE 0

\* mutant: the search lists the issues of every state
IssueListed_AnyState(issue, labels, milestone_filter) ==
    /\ \A l \in Range(labels) : l \in issue.labels
    /\ issue.milestone = milestone_filter

\* mutant: the labels are not passed to the search
IssueListed_NoLabels(issue, labels, milestone_filter) ==
    /\ issue.state = "open"
    /\ issue.milestone = milestone_filter

\* repo.get_issues(state='open', labels=labels_to_add, milestone=...) lists the
\* issue: the tracker lists the open issues that carry every label passed (all
\* open issues when none is passed) and have the milestone asked for, or no
\* milestone when 'none' is asked for
IssueListed(issue, labels, milestone_filter) ==
    /\ issue.state = "open"
    /\ \A l \in Range(labels) : l \in issue.labels
    /\ issue.milestone = milestone_filter

\* mutant: the scan compares the title with the issue, not with its title
IssueExists_Never(repo, issue_data, m) == FALSE

\* the loop over existing_issues finds one with the title
IssueExists(repo, issue_data, m) ==
    \E i \in Indexes(repo_issues[repo]) :
        /\ IssueListed(repo_issues[repo][i], labels_to_add(issue_data),
                       milestone_filter_arg(m))
        /\ repo_issues[repo][i].title = issue_data.title

\* mutant: the board is matched by its title alone, whoever owns it
FindProject_AnyOwner ==
    LET hits == { i \in Indexes(all_projects) :
                    all_projects[i].title = GITHUB_PROJECT_NAME }
    IN IF hits = {} THEN 0
       ELSE all_projects[CHOOSE i \in hits : \A j \in hits : i <= j].number

\* the loop over all_projects: number of the first board of the organization
\* with the configured title, 0 when project_target_id or project_number stay unset
FindProject ==
    LET hits == { i \in Indexes(all_projects) :
                    /\ all_projects[i].owner = GITHUB_ORG_NAME
                    /\ all_projects[i].title = GITHUB_PROJECT_NAME }
    IN IF hits = {} THEN 0
       ELSE all_projects[CHOOSE i \in hits : \A j \in hits : i <= j].number

\* mutant: the Milestone of the repository is taken from whatever name has one
ResolveMilestone_AnyName(objects, task_data) ==
    LET names == { n \in DOMAIN objects :
                     task_data.target_repository \in DOMAIN objects[n] }
    IN IF ~Falsy(task_data.milestone_name) /\ names # {}
       THEN objects[CHOOSE n \in names : TRUE][task_data.target_repository]
       ELSE NoMilestone

\* mutant: when the dict of the name has no Milestone for the repository of the
\* task, one of another repository is taken
ResolveMilestone_AnyRepo(objects, task_data) ==
    IF ~Falsy(task_data.milestone_name) /\ task_data.milestone_name \in DOMAIN objects
    THEN LET d == objects[task_data.milestone_name]
         IN IF task_data.target_repository \in DOMAIN d
            THEN d[task_data.target_repository]
            ELSE IF DOMAIN d # {} THEN d[CHOOSE k \in DOMAIN d : TRUE]
            ELSE NoMilestone
    ELSE NoMilestone

\* created_milestone_objects[task_milestone_name].get(task_repo_key), None when
\* the name is empty or no key of the dict
ResolveMilestone(objects, task_data) ==
    IF ~Falsy(task_data.milestone_name) /\ task_data.milestone_name \in DOMAIN objects
    THEN DictGet(objects[task_data.milestone_name], task_data.target_repository,
                 NoMilestone)
    ELSE NoMilestone

\* mutant: `return issue` when the title is found
DuplicateReturn_Issue(repo, issue_data, m) ==
    CHOOSE i \in Indexes(repo_issues[repo]) :
        /\ IssueListed(repo_issues[repo][i], labels_to_add(issue_data),
                       milestone_filter_arg(m))
        /\ repo_issues[repo][i].title = issue_data.title

\* the value `return` gives back when the title is found (line 168): None
DuplicateReturn(repo, issue_data, m) == 0

\* an entry of the log: the run, the operation, the index of the milestone spec
\* or task it serves, the repository, the milestone or board number passed,
\* whether it succeeded and what it returned (a number, 0 for nothing)
Call(r, op, idx, repo, arg, ok, res) ==
    [run |-> r, op |-> op, idx |-> idx, repo |-> repo, arg |-> arg, ok |-> ok,
     res |-> IF ok THEN res ELSE 0]

Terminated(r) == pc[r] \in {"done", "aborted"}

\* ------------------------------------------------------------------- Init
Init ==
    /\ milestones_data \in SeqsUpTo(MilestoneSpecs, MaxMilestones)
    /\ tasks_data \in SeqsUpTo(TaskSpecs, MaxTasks)
    /\ all_projects \in ProjectLists
    /\ repo_milestones = [k \in REPO_MAP |-> << >>]
    /\ repo_issues = [k \in REPO_MAP |-> << >>]
    /\ project_items = << >>
    /\ pc = [r \in Runs |-> IF r = 1 THEN "milestone_loop" ELSE "idle"]
    /\ mi = [r \in Runs |-> 1]
    /\ ri = [r \in Runs |-> 1]
    /\ ti = [r \in Runs |-> 1]
    /\ created_milestone_objects = [r \in Runs |-> EmptyDict]
    /\ milestone_obj_for_issue = [r \in Runs |-> NoMilestone]
    /\ created_issue = [r \in Runs |-> 0]
    /\ project_number = [r \in Runs |-> 0]
    /\ calls = << >>
    /\ faults = 0
    /\ envSteps = 0
    /\ concurrent = FALSE

\* ------------------------------------------------------------ main(): runs
\* a further run of the tool with the same plan; unless the runs overlap it
\* starts when the run before it has ended
StartRun(r) ==
    /\ pc[r] = "idle"
    /\ concurrent \/ \A q \in Runs : q < r => Terminated(q)
    /\ pc' = [pc EXCEPT ![r] = "milestone_loop"]
    /\ UNCHANGED << plan, backend, mi, ri, ti, created_milestone_objects, locals,
                    calls, faults, envSteps >>

\* for m_data in milestones_data: skip a spec without name, else start its dict
MilestoneLoop(r) ==
    /\ pc[r] = "milestone_loop"
    /\ IF mi[r] > Len(milestones_data)
       THEN /\ pc' = [pc EXCEPT ![r] = "task_loop"]
            /\ UNCHANGED << mi, ri, created_milestone_objects >>
       ELSE IF Falsy(milestones_data[mi[r]].name)
       THEN /\ mi' = [mi EXCEPT ![r] = @ + 1]
            /\ UNCHANGED << pc, ri, created_milestone_objects >>
       ELSE /\ created_milestone_objects' =
                [created_milestone_objects EXCEPT
                    ![r] = DictSet(@, milestones_data[mi[r]].name, EmptyDict)]
            /\ ri' = [ri EXCEPT ![r] = 1]
            /\ pc' = [pc EXCEPT ![r] = "repo_loop"]
            /\ UNCHANGED mi
    /\ UNCHANGED << plan, backend, ti, locals, calls, faults, envSteps >>

\* for repo_key in target_repos_for_milestone: skip a key REPO_MAP does not have
RepoLoop(r) ==
    /\ pc[r] = "repo_loop"
    /\ LET targets == milestones_data[mi[r]].target_repositories
       IN IF ri[r] > Len(targets)
          THEN /\ mi' = [mi EXCEPT ![r] = @ + 1]
               /\ pc' = [pc EXCEPT ![r] = "milestone_loop"]
               /\ UNCHANGED ri
          ELSE IF targets[ri[r]] \notin REPO_MAP
          THEN /\ ri' = [ri EXCEPT ![r] = @ + 1]
               /\ UNCHANGED << pc, mi >>
          ELSE /\ pc' = [pc EXCEPT ![r] = "get_milestones"]
               /\ UNCHANGED << mi, ri >>
    /\ UNCHANGED << plan, backend, ti, created_milestone_objects, locals, calls,
                    faults, envSteps >>

\* mutant: the dict of the name is replaced, not updated
StoreMilestone_Replace(objects, name, repo_key, m) ==
    DictSet(objects, name, DictSet(EmptyDict, repo_key, m))

\* the Milestone is stored under the name and the repo key: main() after
\* get_or_create_milestone returned one
StoreMilestone(objects, name, repo_key, m) ==
    DictSet(objects, name, DictSet(objects[name], repo_key, m))

\* get_or_create_milestone: repo.get_milestones(state='all') and the scan of it
GetMilestones(r) ==
    /\ pc[r] = "get_milestones"
    /\ LET m_data == milestones_data[mi[r]]
           repo_key == m_data.target_repositories[ri[r]]
           found == FirstMilestone(repo_key, m_data.name)
       IN \E ok \in BOOLEAN :
            /\ ~ok => faults < MaxFaults
            /\ faults' = IF ok THEN faults ELSE faults + 1
            /\ calls' = Append(calls,
                    Call(r, "get_milestones", mi[r], repo_key, 0, ok, found))
            /\ IF ~ok
               THEN \* the GithubException is caught nowhere: the run ends
                    /\ pc' = [pc EXCEPT ![r] = "aborted"]
                    /\ UNCHANGED << ri, created_milestone_objects >>
               ELSE IF found # 0
               THEN /\ created_milestone_objects' =
                        [created_milestone_objects EXCEPT
                            ![r] = StoreMilestone(@, m_data.name, repo_key,
                                        [repo |-> repo_key, number |-> found])]
                    /\ ri' = [ri EXCEPT ![r] = @ + 1]
                    /\ pc' = [pc EXCEPT ![r] = "repo_loop"]
               ELSE /\ pc' = [pc EXCEPT ![r] = "create_milestone"]
                    /\ UNCHANGED << ri, created_milestone_objects >>
    /\ UNCHANGED << plan, backend, mi, ti, locals, envSteps >>

\* mutant: the except branch returns a Milestone that was never created
CreateFailureReturn_Stale(repo_key) ==
    [repo |-> repo_key, number |-> Len(repo_milestones[repo_key]) + 1]

\* what get_or_create_milestone returns on a GithubException (line 127): None
CreateFailureReturn(repo_key) == NoMilestone

\* get_or_create_milestone: repo.create_milestone; None on a GithubException;
\* main() stores what is returned when it is not None
CreateMilestone(r) ==
    /\ pc[r] = "create_milestone"
    /\ LET m_data == milestones_data[mi[r]]
           repo_key == m_data.target_repositories[ri[r]]
           number == Len(repo_milestones[repo_key]) + 1
       IN \E ok \in BOOLEAN :
            /\ ~ok => faults < MaxFaults
            /\ faults' = IF ok THEN faults ELSE faults + 1
            /\ calls' = Append(calls,
                    Call(r, "create_milestone", mi[r], repo_key, 0, ok, number))
            /\ IF ok
               THEN /\ repo_milestones' =
                        [repo_milestones EXCEPT ![repo_key] =
                            Append(@, [title |-> m_data.name, state |-> "open",
                                       run |-> r])]
                    /\ created_milestone_objects' =
                        [created_milestone_objects EXCEPT
                            ![r] = StoreMilestone(@, m_data.name, repo_key,
                                        [repo |-> repo_key, number |-> number])]
               ELSE /\ UNCHANGED repo_milestones
                    /\ created_milestone_objects' =
                        IF CreateFailureReturn(repo_key) # NoMilestone
                        THEN [created_milestone_objects EXCEPT
                                ![r] = StoreMilestone(@, m_data.name, repo_key,
                                            CreateFailureReturn(repo_key))]
                        ELSE created_milestone_objects
            /\ ri' = [ri EXCEPT ![r] = @ + 1]
            /\ pc' = [pc EXCEPT ![r] = "repo_loop"]
    /\ UNCHANGED << plan, repo_issues, project_items, mi, ti, locals, envSteps >>

\* mutant: a task whose milestone is not in the dict sends the run back to the
\* reconciliation of the first milestone spec with that name
TaskLoop_Lazy(r) ==
    /\ pc[r] = "task_loop"
    /\ IF ti[r] > Len(tasks_data)
       THEN /\ pc' = [pc EXCEPT ![r] = "done"]
            /\ UNCHANGED << mi, ti, milestone_obj_for_issue >>
       ELSE LET task_data == tasks_data[ti[r]]
                specs == { i \in Indexes(milestones_data) :
                             milestones_data[i].name = task_data.milestone_name }
            IN IF \/ Falsy(task_data.title) \/ Falsy(task_data.target_repository)
                  \/ task_data.target_repository \notin REPO_MAP
               THEN /\ ti' = [ti EXCEPT ![r] = @ + 1]
                    /\ UNCHANGED << pc, mi, milestone_obj_for_issue >>
               ELSE IF /\ ~Falsy(task_data.milestone_name) /\ specs # {}
                       /\ ResolveMilestone(created_milestone_objects[r], task_data)
                              = NoMilestone
               THEN /\ mi' = [mi EXCEPT ![r] = CHOOSE i \in specs :
                                                    \A j \in specs : i <= j]
                    /\ pc' = [pc EXCEPT ![r] = "milestone_loop"]
                    /\ UNCHANGED << ti, milestone_obj_for_issue >>
               ELSE /\ milestone_obj_for_issue' =
                        [milestone_obj_for_issue EXCEPT
                            ![r] = ResolveMilestone(created_milestone_objects[r],
                                                    task_data)]
                    /\ pc' = [pc EXCEPT ![r] = "get_issues"]
                    /\ UNCHANGED << mi, ti >>
    /\ UNCHANGED << plan, backend, ri, created_milestone_objects, created_issue,
                    project_number, calls, faults, envSteps >>

\* for task_data in tasks_data: the checks of main() before create_github_issue
\* and the lookup of the Milestone
TaskLoop(r) ==
    /\ pc[r] = "task_loop"
    /\ IF ti[r] > Len(tasks_data)
       THEN /\ pc' = [pc EXCEPT ![r] = "done"]
            /\ UNCHANGED << ti, milestone_obj_for_issue >>
       ELSE LET task_data == tasks_data[ti[r]]
            IN IF \/ Falsy(task_data.title) \/ Falsy(task_data.target_repository)
                  \/ task_data.target_repository \notin REPO_MAP
                  \/ Falsy(task_data.title)    \* create_github_issue, line 140
               THEN /\ ti' = [ti EXCEPT ![r] = @ + 1]
                    /\ UNCHANGED << pc, milestone_obj_for_issue >>
               ELSE /\ milestone_obj_for_issue' =
                        [milestone_obj_for_issue EXCEPT
                            ![r] = ResolveMilestone(created_milestone_objects[r],
                                                    task_data)]
                    /\ pc' = [pc EXCEPT ![r] = "get_issues"]
                    /\ UNCHANGED ti
    /\ UNCHANGED << plan, backend, mi, ri, created_milestone_objects, created_issue,
                    project_number, calls, faults, envSteps >>

\* create_github_issue: repo.get_issues(...) and the scan for the title; main()
\* links what create_github_issue returns when it is not None
GetIssues(r) ==
    /\ pc[r] = "get_issues"
    /\ LET task_data == tasks_data[ti[r]]
           repo_key == task_data.target_repository
           m == milestone_obj_for_issue[r]
           exists == IssueExists(repo_key, task_data, m)
           returned == DuplicateReturn(repo_key, task_data, m)
       IN \E ok \in BOOLEAN :
            /\ ~ok => faults < MaxFaults
            /\ faults' = IF ok THEN faults ELSE faults + 1
            /\ calls' = Append(calls,
                    Call(r, "get_issues", ti[r], repo_key, milestone_filter_arg(m),
                         ok, IF exists THEN 1 ELSE 0))
            /\ IF ~ok
               THEN \* get_issues is outside the try of create_github_issue
                    /\ pc' = [pc EXCEPT ![r] = "aborted"]
                    /\ UNCHANGED << ti, created_issue >>
               ELSE IF exists /\ returned = 0
               THEN /\ ti' = [ti EXCEPT ![r] = @ + 1]
                    /\ pc' = [pc EXCEPT ![r] = "task_loop"]
                    /\ UNCHANGED created_issue
               ELSE IF exists
               THEN /\ created_issue' = [created_issue EXCEPT ![r] = returned]
                    /\ pc' = [pc EXCEPT ![r] = "project_list"]
                    /\ UNCHANGED ti
               ELSE /\ pc' = [pc EXCEPT ![r] = "create_issue"]
                    /\ UNCHANGED << ti, created_issue >>
    /\ UNCHANGED << plan, backend, mi, ri, created_milestone_objects,
                    milestone_obj_for_issue, project_number, envSteps >>

\* mutant: the except branch of create_github_issue ends the process
CreateIssue_Fatal(r) ==
    /\ pc[r] = "create_issue"
    /\ LET task_data == tasks_data[ti[r]]
           repo_key == task_data.target_repository
           number == Len(repo_issues[repo_key]) + 1
           m == milestone_obj_for_creation(milestone_obj_for_issue[r])
       IN \E ok \in BOOLEAN :
            /\ ~ok => faults < MaxFaults
            /\ faults' = IF ok THEN faults ELSE faults + 1
            /\ calls' = Append(calls, Call(r, "create_issue", ti[r], repo_key, m, ok,
                                       number))
            /\ IF ok
               THEN /\ repo_issues' =
                        [repo_issues EXCEPT ![repo_key] =
                            Append(@, [title |-> task_data.title,
                                       state |-> "open",
                                       labels |-> Range(labels_to_add(task_data)),
                                       milestone |-> m,
                                       run |-> r,
                                       task |-> ti[r]])]
                    /\ created_issue' = [created_issue EXCEPT ![r] = number]
                    /\ pc' = [pc EXCEPT ![r] = "project_list"]
               ELSE /\ pc' = [pc EXCEPT ![r] = "aborted"]
                    /\ UNCHANGED << repo_issues, created_issue >>
    /\ UNCHANGED << plan, repo_milestones, project_items, mi, ri, ti,
                    created_milestone_objects, milestone_obj_for_issue,
                    project_number, envSteps >>

\* create_github_issue: repo.create_issue; None on a GithubException
CreateIssue(r) ==
    /\ pc[r] = "create_issue"
    /\ LET task_data == tasks_data[ti[r]]
           repo_key == task_data.target_repository
           number == Len(repo_issues[repo_key]) + 1
           m == milestone_obj_for_creation(milestone_obj_for_issue[r])
       IN \E ok \in BOOLEAN :
            /\ ~ok => faults < MaxFaults
            /\ faults' = IF ok THEN faults ELSE faults + 1
            /\ calls' = Append(calls, Call(r, "create_issue", ti[r], repo_key, m, ok,
                                       number))
            /\ IF ok
               THEN /\ repo_issues' =
                        [repo_issues EXCEPT ![repo_key] =
                            Append(@, [title |-> task_data.title,
                                       state |-> "open",
                                       labels |-> Range(labels_to_add(task_data)),
                                       milestone |-> m,
                                       run |-> r,
                                       task |-> ti[r]])]
                    /\ created_issue' = [created_issue EXCEPT ![r] = number]
                    /\ pc' = [pc EXCEPT ![r] = "project_list"]
                    /\ UNCHANGED ti
               ELSE /\ ti' = [ti EXCEPT ![r] = @ + 1]
                    /\ pc' = [pc EXCEPT ![r] = "task_loop"]
                    /\ UNCHANGED << repo_issues, created_issue >>
    /\ UNCHANGED << plan, repo_milestones, project_items, mi, ri,
                    created_milestone_objects, milestone_obj_for_issue,
                    project_number, envSteps >>

\* add_issue_to_github_project, step 1: gh project list and the search of the
\* board; sys.exit(1) when the command fails or no board matches
ProjectList(r) ==
    /\ pc[r] = "project_list"
    /\ \E ok \in BOOLEAN :
            /\ ~ok => faults < MaxFaults
            /\ faults' = IF ok THEN faults ELSE faults + 1
            /\ calls' = Append(calls,
                    Call(r, "project_list", ti[r],
                         tasks_data[ti[r]].target_repository, 0, ok, FindProject))
            /\ IF ok /\ FindProject # 0
               THEN /\ project_number' = [project_number EXCEPT ![r] = FindProject]
                    /\ pc' = [pc EXCEPT ![r] = "item_add"]
               ELSE /\ pc' = [pc EXCEPT ![r] = "aborted"]
                    /\ UNCHANGED project_number
    /\ UNCHANGED << plan, backend, mi, ri, ti, created_milestone_objects,
                    milestone_obj_for_issue, created_issue, envSteps >>

\* mutant: a failure of gh project item-add is a warning, the walk goes on
ItemAdd_NonFatal(r) ==
    /\ pc[r] = "item_add"
    /\ LET repo_key == tasks_data[ti[r]].target_repository
       IN \E ok \in BOOLEAN :
            /\ ~ok => faults < MaxFaults
            /\ faults' = IF ok THEN faults ELSE faults + 1
            /\ calls' = Append(calls,
                    Call(r, "item_add", ti[r], repo_key, project_number[r], ok,
                         created_issue[r]))
            /\ project_items' =
                    IF ok THEN Append(project_items,
                                      [project |-> project_number[r],
                                       repo |-> repo_key,
                                       number |-> created_issue[r], run |-> r])
                    ELSE project_items
            /\ ti' = [ti EXCEPT ![r] = @ + 1]
            /\ pc' = [pc EXCEPT ![r] = "task_loop"]
    /\ UNCHANGED << plan, repo_milestones, repo_issues, mi, ri,
                    created_milestone_objects, locals, envSteps >>

\* add_issue_to_github_project, step 2: gh project item-add --url issue.html_url;
\* sys.exit(1) when the command fails
ItemAdd(r) ==
    /\ pc[r] = "item_add"
    /\ LET repo_key == tasks_data[ti[r]].target_repository
       IN \E ok \in BOOLEAN :
            /\ ~ok => faults < MaxFaults
            /\ faults' = IF ok THEN faults ELSE faults + 1
            /\ calls' = Append(calls,
                    Call(r, "item_add", ti[r], repo_key, project_number[r], ok,
                         created_issue[r]))
            /\ IF ok
               THEN /\ project_items' =
                        Append(project_items,
                               [project |-> project_number[r],
                                repo |-> repo_key, number |-> created_issue[r],
                                run |-> r])
                    /\ ti' = [ti EXCEPT ![r] = @ + 1]
                    /\ pc' = [pc EXCEPT ![r] = "task_loop"]
               ELSE /\ pc' = [pc EXCEPT ![r] = "aborted"]
                    /\ UNCHANGED << project_items, ti >>
    /\ UNCHANGED << plan, repo_milestones, repo_issues, mi, ri,
                    created_milestone_objects, locals, envSteps >>

\* ------------------------------------------------------------ environment
\* between two runs a user of the tracker closes an issue
EnvCloseIssue ==
    /\ envSteps < MaxEnvSteps
    /\ \A r \in Runs : Terminated(r) \/ pc[r] = "idle"
    /\ \E k \in REPO_MAP : \E i \in Indexes(repo_issues[k]) :
            /\ repo_issues[k][i].state = "open"
            /\ repo_issues' = [repo_issues EXCEPT ![k][i].state = "closed"]
    /\ envSteps' = envSteps + 1
    /\ UNCHANGED << plan, repo_milestones, project_items, pc, mi, ri, ti,
                    created_milestone_objects, locals, calls, faults >>

\* between two runs a user of the tracker closes a milestone
EnvCloseMilestone ==
    /\ envSteps < MaxEnvSteps
    /\ \A r \in Runs : Terminated(r) \/ pc[r] = "idle"
    /\ \E k \in REPO_MAP : \E i \in Indexes(repo_milestones[k]) :
            /\ repo_milestones[k][i].state = "open"
            /\ repo_milestones' = [repo_milestones EXCEPT ![k][i].state = "closed"]
    /\ envSteps' = envSteps + 1
    /\ UNCHANGED << plan, repo_issues, project_items, pc, mi, ri, ti,
                    created_milestone_objects, locals, calls, faults >>

Next ==
    \/ \E r \in Runs : StartRun(r)
    \/ \E r \in Runs : MilestoneLoop(r)
    \/ \E r \in Runs : RepoLoop(r)
    \/ \E r \in Runs : GetMilestones(r)
    \/ \E r \in Runs : CreateMilestone(r)
    \/ \E r \in Runs : TaskLoop(r)
    \/ \E r \in Runs : GetIssues(r)
    \/ \E r \in Runs : CreateIssue(r)
    \/ \E r \in Runs : ProjectList(r)
    \/ \E r \in Runs : ItemAdd(r)
    \/ EnvCloseIssue
    \/ EnvCloseMilestone

Spec == Init /\ [][Next]_vars

\* two runs of the tool started side by side with one plan of a milestone for
\* the two repositories and a backend task with that milestone
ConcInit ==
    /\ milestones_data \in SeqsUpTo(
            { [name |-> "M1", target_repositories |-> <<"frontend", "backend">>] },
            MaxConcPlan)
    /\ tasks_data \in SeqsUpTo(
            { Task("T1", "backend", "unassigned", "high", "", "M1") }, MaxConcPlan)
    /\ all_projects \in ProjectLists
    /\ repo_milestones = [k \in REPO_MAP |-> << >>]
    /\ repo_issues = [k \in REPO_MAP |-> << >>]
    /\ project_items = << >>
    /\ pc = [r \in Runs |-> IF r = 1 THEN "milestone_loop" ELSE "idle"]
    /\ mi = [r \in Runs |-> 1]
    /\ ri = [r \in Runs |-> 1]
    /\ ti = [r \in Runs |-> 1]
    /\ created_milestone_objects = [r \in Runs |-> EmptyDict]
    /\ milestone_obj_for_issue = [r \in Runs |-> NoMilestone]
    /\ created_issue = [r \in Runs |-> 0]
    /\ project_number = [r \in Runs |-> 0]
    /\ calls = << >>
    /\ faults = 0
    /\ envSteps = 0
    /\ concurrent = TRUE

SpecConc == ConcInit /\ [][Next]_vars

\* the priorities a task spec can have: none, or one of two values
Priorities == {"", "high", "low"}

\* the task specs of the plans that are submitted again
ResubmitTaskSpecs ==
    { Task("T1", "backend",  "unassigned", "high", "",      "M1"),
      Task("T1", "backend",  "unassigned", "",     "",      "M1"),
      Task("T2", "backend",  "unassigned", "high", "",      "M1"),
      Task("T1", "frontend", "backend",    "low",  "small", "") }

ResubmitInit == Init /\ Range(tasks_data) \subseteq ResubmitTaskSpecs

\* the plan is submitted again after the first run with another priority for
\* one of its tasks: the second run reads llm_output['tasks'] anew
Resubmit ==
    /\ Terminated(1) /\ pc[2] = "idle"
    /\ \E t \in Indexes(tasks_data) : \E p \in Priorities :
            /\ p # tasks_data[t].priority
            /\ tasks_data' = [tasks_data EXCEPT ![t].priority = p]
    /\ UNCHANGED << milestones_data, all_projects, concurrent, backend, pc, mi, ri,
                    ti, created_milestone_objects, locals, calls, faults, envSteps >>

NextResubmit == Next \/ Resubmit

SpecResubmit == ResubmitInit /\ [][NextResubmit]_vars

\* the steps of main() in one run: every call is a blocking round trip that
\* returns, and nothing but the end of the process stops the walk of the plan
RunStep(r) ==
    \/ MilestoneLoop(r) \/ RepoLoop(r) \/ GetMilestones(r) \/ CreateMilestone(r)
    \/ TaskLoop(r) \/ GetIssues(r) \/ CreateIssue(r) \/ ProjectList(r) \/ ItemAdd(r)

\* the task specs of the plans on which termination is checked: one without
\* title, one with a milestone, one with every kind of label and no milestone
FairTaskSpecs ==
    { Task("",   "backend",  "unassigned", "high", "",      "M1"),
      Task("T1", "backend",  "unassigned", "high", "",      "M1"),
      Task("T1", "frontend", "backend",    "low",  "small", "") }

FairInit == Init /\ Range(tasks_data) \subseteq FairTaskSpecs

\* a run that was started keeps running until the process exits
FairSpec == FairInit /\ [][Next]_vars /\ \A r \in Runs : WF_vars(RunStep(r))

\* ----------------------------------------------------------------- claims
\* what a run added to the tracker and to the board
IssuesOf(r) ==
    UNION { { <<k, i>> : i \in { j \in Indexes(repo_issues[k]) :
                                    repo_issues[k][j].run = r } } : k \in REPO_MAP }

MilestonesOf(r) ==
    UNION { { <<k, i>> : i \in { j \in Indexes(repo_milestones[k]) :
                                    repo_milestones[k][j].run = r } } : k \in REPO_MAP }

ItemsOf(r) == { i \in Indexes(project_items) : project_items[i].run = r }

CreatedNothing(r) == IssuesOf(r) = {} /\ MilestonesOf(r) = {} /\ ItemsOf(r) = {}

CallsOf(r) == { i \in Indexes(calls) : calls[i].run = r }

FailedCallsOf(r) == { i \in CallsOf(r) : ~calls[i].ok }

\* the last call a run made is a failed one of these operations
LastCallFailed(r, ops) ==
    /\ CallsOf(r) # {}
    /\ LET last == CHOOSE i \in CallsOf(r) : \A j \in CallsOf(r) : j <= i
       IN ~calls[last].ok /\ calls[last].op \in ops

\* C1 as stated: once a run has completed, a second run of the same plan against
\* the backend as the first left it creates no milestone, no issue, no board item.
C1_Original ==
    (pc[1] = "done" /\ envSteps = 0) => CreatedNothing(2)

\* C1 amended: when the first run has completed and none of its milestone or issue
\* creations failed, a second run of the same plan against the backend as the
\* first left it creates no milestone, no issue and no board item.
C1_Idempotent ==
    (pc[1] = "done" /\ envSteps = 0 /\ FailedCallsOf(1) = {}) => CreatedNothing(2)

\* C1 witness: the first run created a milestone, an issue and a board item
\* without any failure, and the second run has walked the whole plan
C1_Witness ==
    /\ pc[1] = "done" /\ pc[2] = "done" /\ envSteps = 0 /\ FailedCallsOf(1) = {}
    /\ IssuesOf(1) # {} /\ MilestonesOf(1) # {} /\ ItemsOf(1) # {}
    /\ \E i \in CallsOf(2) : calls[i].op = "get_issues" /\ calls[i].arg # 0

\* C2 as stated: a backend error during the duplicate search or the creation of
\* an issue does not end the run (the task is skipped, the next one processed).
C2_SearchOrCreateErrorNotFatal ==
    \A r \in Runs :
        LastCallFailed(r, {"get_issues", "create_issue"}) => pc[r] # "aborted"

\* no board the gh command lists is owned by the organization and has the
\* configured name
NoBoardMatches ==
    \A i \in Indexes(all_projects) :
        ~(/\ all_projects[i].owner = GITHUB_ORG_NAME
          /\ all_projects[i].title = GITHUB_PROJECT_NAME)

\* C3: when no board of the organization has the configured name, the first
\* board-link attempt of a run ends it: the run makes no call after it, so it
\* has created one issue at most and no board item exists.
C3_AbortAtFirstLink ==
    NoBoardMatches =>
        /\ project_items = << >>
        /\ \A r \in Runs :
            /\ Cardinality(IssuesOf(r)) <= 1
            /\ IssuesOf(r) # {} => pc[r] \in {"project_list", "aborted"}
            /\ \A i \in CallsOf(r) :
                  calls[i].op = "project_list" =>
                      /\ pc[r] = "aborted"
                      /\ \A j \in CallsOf(r) : j <= i

\* C3 witness: the run was ended by the board search while a task was left
C3_Witness ==
    /\ NoBoardMatches
    /\ pc[1] = "aborted"
    /\ IssuesOf(1) # {}
    /\ ti[1] < Len(tasks_data)
    /\ \E i \in CallsOf(1) : calls[i].op = "project_list" /\ calls[i].ok

\* the run has left RECONCILING_MILESTONES after walking every milestone spec
AfterMilestones(r) == pc[r] # "idle" /\ mi[r] > Len(milestones_data)

\* the handles the lookup table of a run holds under a name
HandlesOf(r, name) == DictGet(created_milestone_objects[r], name, EmptyDict)

\* a handle of the table is a milestone of its own repository with that title
OwnHandle(h, k, name) ==
    /\ h.repo = k
    /\ h.number \in Indexes(repo_milestones[k])
    /\ repo_milestones[k][h.number].title = name

BothRepositories(i) ==
    /\ milestones_data[i].name # ""
    /\ Range(milestones_data[i].target_repositories) = {"frontend", "backend"}

LastOfItsName(i) ==
    \A j \in Indexes(milestones_data) :
        j > i => milestones_data[j].name # milestones_data[i].name

CreationFailed(r, i) ==
    \E c \in FailedCallsOf(r) : calls[c].op = "create_milestone" /\ calls[c].idx = i

TaskOps == {"get_issues", "create_issue", "project_list", "item_add"}

\* the calls a run made for a task
TaskCalls(r, t, ops) ==
    { i \in CallsOf(r) : calls[i].op \in ops /\ calls[i].idx = t }

\* the issues a run created for a task
IssuesOfTask(r, t) ==
    { x \in IssuesOf(r) : repo_issues[x[1]][x[2]].task = t }

\* C5: the board linker is invoked for a task exactly when the run created an
\* issue for it (it is the next step of the run until it is called), and every
\* board item refers to an issue its own run created, one item per issue at
\* most: a duplicate or a task skipped otherwise yields no board call.
C5_LinkIffCreated ==
    /\ \A r \in Runs : \A t \in Indexes(tasks_data) :
        /\ TaskCalls(r, t, {"project_list", "item_add"}) # {} => IssuesOfTask(r, t) # {}
        /\ IssuesOfTask(r, t) # {} =>
             \/ TaskCalls(r, t, {"project_list"}) # {}
             \/ pc[r] = "project_list" /\ ti[r] = t
    /\ \A i \in Indexes(project_items) :
        /\ <<project_items[i].repo, project_items[i].number>>
                \in IssuesOf(project_items[i].run)
        /\ \A j \in Indexes(project_items) :
             (/\ project_items[j].repo = project_items[i].repo
              /\ project_items[j].number = project_items[i].number) => j = i

\* C5 witness: the second run skipped a task as a duplicate of an issue of the
\* first run, which has its one board item, and created and linked another
C5_Witness ==
    /\ pc[2] = "done"
    /\ ItemsOf(1) # {} /\ ItemsOf(2) # {}
    /\ \E t \in Indexes(tasks_data) :
        /\ IssuesOfTask(1, t) # {} /\ IssuesOfTask(2, t) = {}
        /\ \E c \in TaskCalls(2, t, {"get_issues"}) : calls[c].res = 1
        /\ TaskCalls(2, t, {"project_list", "item_add"}) = {}

\* the step of a run in which the search for duplicates returned
SearchStep(r) == pc[r] = "get_issues" /\ pc'[r] \notin {"get_issues", "aborted"}

\* the issues of the repository of the task a run is at that have its title
Namesakes(r) ==
    LET k == tasks_data[ti[r]].target_repository
    IN { i \in Indexes(repo_issues[k]) :
            repo_issues[k][i].title = tasks_data[ti[r]].title }

\* an issue with the title, the derived labels (all of them, or exactly them)
\* and the milestone of the task the run is at
Twin(r, i, exactLabels) ==
    LET k == tasks_data[ti[r]].target_repository
        derived == Range(labels_to_add(tasks_data[ti[r]]))
    IN /\ i \in Namesakes(r)
       /\ IF exactLabels THEN repo_issues[k][i].labels = derived
                         ELSE derived \subseteq repo_issues[k][i].labels
       /\ repo_issues[k][i].milestone = milestone_obj_for_issue[r].number

IsOpen(r, i) == repo_issues[tasks_data[ti[r]].target_repository][i].state = "open"

\* C6: when every issue of the repository with the task's title is closed, one
\* of them with the task's labels and milestone, the search finds no duplicate
\* and the run goes on to create the issue, which is created open.
C6_ClosedDoesNotSuppress ==
    [][ \A r \in Runs :
          /\ ( /\ SearchStep(r)
               /\ \E i \in Namesakes(r) : Twin(r, i, TRUE)
               /\ \A i \in Namesakes(r) : ~IsOpen(r, i) )
             => pc'[r] = "create_issue"
          /\ (pc[r] = "create_issue" /\ pc'[r] = "project_list")
             => LET k == tasks_data[ti[r]].target_repository
                IN /\ Len(repo_issues'[k]) = Len(repo_issues[k]) + 1
                   /\ repo_issues'[k][Len(repo_issues'[k])].state = "open"
                   /\ repo_issues'[k][Len(repo_issues'[k])].title =
                          tasks_data[ti[r]].title ]_vars

\* C6 witness: an issue was closed after the first run and the second run has
\* created an open issue with the same title, labels and milestone
C6_Witness ==
    /\ envSteps = 1
    /\ \E x \in IssuesOf(1) : \E y \in IssuesOf(2) :
        /\ x[1] = y[1]
        /\ repo_issues[x[1]][x[2]].state = "closed"
        /\ repo_issues[y[1]][y[2]].state = "open"
        /\ repo_issues[x[1]][x[2]].title = repo_issues[y[1]][y[2]].title
        /\ repo_issues[x[1]][x[2]].labels = repo_issues[y[1]][y[2]].labels
        /\ repo_issues[x[1]][x[2]].milestone = repo_issues[y[1]][y[2]].milestone

\* C7 as stated: the search suppresses the creation exactly when an open issue
\* has the title, the same label set and the same milestone as the task.
C7_Original ==
    [][ \A r \in Runs : SearchStep(r) =>
          ( pc'[r] = "task_loop" <=>
            \E i \in Namesakes(r) : IsOpen(r, i) /\ Twin(r, i, TRUE) ) ]_vars

\* C7 amended: an existing issue suppresses the creation of a task's issue if and
\* only if its title equals the task title exactly, it is open, its label set
\* contains every label derived from the task (it may have more), and its
\* milestone is the task's resolved milestone (no milestone matching only
\* issues without one).
C7_DuplicateIff ==
    [][ \A r \in Runs : SearchStep(r) =>
          ( pc'[r] = "task_loop" <=>
            \E i \in Namesakes(r) : IsOpen(r, i) /\ Twin(r, i, FALSE) ) ]_vars

\* C7 witness: a task was skipped as a duplicate although every issue with its
\* title in the repository has other labels than it derives
C7_Witness ==
    \E r \in Runs : \E t \in Indexes(tasks_data) :
        /\ envSteps = 0 /\ pc[r] = "task_loop" /\ ti[r] = t + 1
        /\ \E c \in TaskCalls(r, t, {"get_issues"}) : calls[c].res = 1
        /\ \A i \in Indexes(repo_issues[tasks_data[t].target_repository]) :
             repo_issues[tasks_data[t].target_repository][i].labels #
                Range(labels_to_add(tasks_data[t]))

\* a task spec without title or without target repository
Incomplete(t) == tasks_data[t].title = "" \/ tasks_data[t].target_repository = ""

\* C8: a run makes no tracker call and no board call for a task spec whose title
\* or target repository is empty, and such a task never ends the run: the run
\* is at it only in the head of the task loop, from which it goes to the next.
C8_IncompleteTaskNoCalls ==
    \A r \in Runs : \A t \in Indexes(tasks_data) : Incomplete(t) =>
        /\ TaskCalls(r, t, TaskOps) = {}
        /\ IssuesOfTask(r, t) = {}
        /\ (AfterMilestones(r) /\ ti[r] = t) => pc[r] \in {"milestone_loop", "task_loop"}

\* C8 witness: a run has completed after skipping a task without title or
\* without repository and creating and linking the issue of the task after it
C8_Witness ==
    /\ pc[1] = "done"
    /\ Len(tasks_data) = 2
    /\ Incomplete(1)
    /\ IssuesOfTask(1, 2) # {}
    /\ ItemsOf(1) # {}

\* the milestone name of the task is not empty and no milestone spec has it
UnknownMilestone(t) ==
    /\ tasks_data[t].milestone_name # ""
    /\ \A i \in Indexes(milestones_data) :
         milestones_data[i].name # tasks_data[t].milestone_name

\* C9: for a task whose milestone name is that of no milestone spec, the search
\* asks for issues without milestone and the issue is created without one; the
\* run is not ended by the lookup (it ends at the task only by a failed call)
\* and a task with title and known repository is searched for.
C9_UnknownMilestoneIsNone ==
    \A r \in Runs : \A t \in Indexes(tasks_data) : UnknownMilestone(t) =>
        /\ \A c \in TaskCalls(r, t, {"get_issues", "create_issue"}) : calls[c].arg = 0
        /\ \A x \in IssuesOfTask(r, t) : repo_issues[x[1]][x[2]].milestone = 0
        /\ (pc[r] = "aborted" /\ AfterMilestones(r) /\ ti[r] = t)
               => TaskCalls(r, t, TaskOps) # {}
        /\ (/\ AfterMilestones(r) /\ ti[r] > t /\ ~Incomplete(t)
            /\ tasks_data[t].target_repository \in {"frontend", "backend"})
               => TaskCalls(r, t, {"get_issues"}) # {}

\* C9 witness: an issue without milestone was created for such a task in a
\* repository that has a milestone of another name
C9_Witness ==
    /\ pc[1] = "done"
    /\ \E t \in Indexes(tasks_data) :
        /\ UnknownMilestone(t)
        /\ \E x \in IssuesOfTask(1, t) :
             /\ repo_issues[x[1]][x[2]].milestone = 0
             /\ repo_milestones[x[1]] # << >>

\* the failed milestone creations of a run
FailedCreations(r) ==
    { c \in FailedCallsOf(r) : calls[c].op = "create_milestone" }

\* the tasks with a title that name the milestone of a call in its repository
TasksOf(c) ==
    { t \in Indexes(tasks_data) :
        /\ tasks_data[t].title # ""
        /\ tasks_data[t].milestone_name = milestones_data[calls[c].idx].name
        /\ tasks_data[t].target_repository = calls[c].repo }

\* the failure did not end the run: a run that was ended made a call after it
NotEndedBy(r, c) == pc[r] = "aborted" => \E d \in CallsOf(r) : d > c

\* C10 as stated: after a failed milestone creation the run is not ended, the
\* table has no handle for the name in that repository, and a completed run has
\* created an issue without milestone for every task naming it in that repository.
C10_Original ==
    \A r \in Runs : \A c \in FailedCreations(r) :
        /\ NotEndedBy(r, c)
        /\ calls[c].repo \notin DOMAIN HandlesOf(r, milestones_data[calls[c].idx].name)
        /\ pc[r] = "done" =>
             \A t \in TasksOf(c) :
                \E x \in IssuesOfTask(r, t) : repo_issues[x[1]][x[2]].milestone = 0

\* a later milestone spec of the same name found or created the milestone in
\* the repository of the failed call
ReconciledLater(r, c) ==
    \E d \in CallsOf(r) :
        /\ d > c
        /\ calls[d].op \in {"get_milestones", "create_milestone"}
        /\ calls[d].res # 0
        /\ calls[d].repo = calls[c].repo
        /\ milestones_data[calls[d].idx].name = milestones_data[calls[c].idx].name

\* C10 amended: when milestone creation fails with a tracker-side error for a
\* (name, repository) pair, the reconciler returns absent and the run is not
\* ended; unless a later milestone spec of the same name reconciles that
\* repository with success, no handle is recorded for the pair and every task
\* with a title that names the milestone in that repository is searched for
\* and created without milestone, and a completed run has created its issue
\* unless the search found a duplicate or the issue creation itself failed.
C10_CreationFailureIsAbsent ==
    \A r \in Runs : \A c \in FailedCreations(r) :
        /\ NotEndedBy(r, c)
        /\ ~ReconciledLater(r, c) =>
            /\ calls[c].repo \notin
                  DOMAIN HandlesOf(r, milestones_data[calls[c].idx].name)
            /\ \A t \in TasksOf(c) :
                /\ \A d \in TaskCalls(r, t, {"get_issues", "create_issue"}) :
                      calls[d].arg = 0
                /\ \A x \in IssuesOfTask(r, t) : repo_issues[x[1]][x[2]].milestone = 0
                /\ pc[r] = "done" =>
                      \/ IssuesOfTask(r, t) # {}
                      \/ \E d \in TaskCalls(r, t, {"get_issues"}) : calls[d].res = 1
                      \/ \E d \in TaskCalls(r, t, {"create_issue"}) : ~calls[d].ok

\* C10 witness: a run completed after a failed milestone creation and created
\* and linked, without milestone, the issue of a task naming that milestone
C10_Witness ==
    /\ pc[1] = "done"
    /\ \E c \in FailedCreations(1) :
        /\ ~ReconciledLater(1, c)
        /\ \E t \in TasksOf(c) : \E x \in IssuesOfTask(1, t) :
             /\ repo_issues[x[1]][x[2]].milestone = 0
             /\ \E i \in ItemsOf(1) : project_items[i].number = x[2]


\* the last call a run made
LastCall(r) == calls[CHOOSE i \in CallsOf(r) : \A j \in CallsOf(r) : j <= i]

\* the conditions that end a run: an error of a listing call, which no except
\* clause catches, a failure of the gh command, or no board of the
\* organization with the configured name
FatalCondition(c) ==
    \/ ~c.ok /\ c.op \in {"get_milestones", "get_issues", "project_list", "item_add"}
    \/ c.ok /\ c.op = "project_list" /\ NoBoardMatches

\* what a run has put into the tracker and the board, and the calls it made
FootprintOf(r) ==
    << { <<x, repo_issues[x[1]][x[2]].title>> : x \in IssuesOf(r) },
       { <<x, repo_milestones[x[1]][x[2]].title>> : x \in MilestonesOf(r) },
       { project_items[i] : i \in ItemsOf(r) },
       { calls[i] : i \in CallsOf(r) } >>

\* the state part of C11
C11_EndStates ==
    \A r \in Runs :
        /\ pc[r] = "done" =>
              /\ mi[r] > Len(milestones_data) /\ ti[r] > Len(tasks_data)
              /\ CallsOf(r) # {} => ~FatalCondition(LastCall(r))
        /\ pc[r] = "aborted" => CallsOf(r) # {} /\ FatalCondition(LastCall(r))
        /\ (~Terminated(r) /\ CallsOf(r) # {}) => ~FatalCondition(LastCall(r))

\* the step part of C11
C11_Terminal ==
    \A r \in Runs : Terminated(r) =>
        /\ pc'[r] = pc[r]
        /\ FootprintOf(r)' = FootprintOf(r)

\* C11: every run that was started ends, done or aborted.  It is done only with
\* the whole plan walked, and whatever warnings there were (a milestone or
\* issue creation that failed, a spec skipped) it is aborted only by a fatal
\* condition and is ended by every fatal condition; once ended it stays as it
\* is and makes no call and no change to the tracker or the board.
C11_Termination ==
    /\ []C11_EndStates
    /\ [][C11_Terminal]_vars
    /\ \A r \in Runs : (pc[r] # "idle") ~> Terminated(r)

\* C11 witness: one run is done although a creation failed, the other run of
\* the same plan was aborted by the board search after it created an issue
C11_Witness ==
    \E r \in Runs : \E q \in Runs :
        /\ pc[r] = "done"
        /\ \E c \in FailedCallsOf(r) :
              calls[c].op \in {"create_milestone", "create_issue"}
        /\ pc[q] = "aborted"
        /\ LastCall(q).op = "project_list"
        /\ IssuesOf(q) # {}


MilestoneOps == {"get_milestones", "create_milestone"}

\* C12: within one run no call that lists or creates milestones comes after a
\* call made for a task, and the calls made for the tasks (search, creation,
\* board search, board addition) are in plan order: a call for a task is never
\* followed by a call for a task before it in the plan.
C12_PlanOrder ==
    \A r \in Runs : \A i \in CallsOf(r) : \A j \in CallsOf(r) :
        i < j =>
            /\ calls[j].op \in MilestoneOps => calls[i].op \in MilestoneOps
            /\ (calls[i].op \in TaskOps /\ calls[j].op \in TaskOps)
                  => calls[i].idx <= calls[j].idx

\* C12 witness: a run is done after it listed and created milestones for two
\* repositories and searched, created and linked the issues of two tasks
C12_Witness ==
    /\ pc[1] = "done"
    /\ Cardinality({ c \in CallsOf(1) : calls[c].op = "create_milestone" }) >= 2
    /\ \A t \in {1, 2} : \A op \in TaskOps :
          \E c \in TaskCalls(1, t, {op}) : calls[c].ok


\* the calls of a run by which get_or_create_milestone returned a Milestone
ReturnedHandle(r) ==
    { c \in CallsOf(r) : calls[c].op \in MilestoneOps /\ calls[c].ok /\ calls[c].res # 0 }

\* C14 as stated: after RECONCILING_MILESTONES, for every milestone spec of the
\* plan and every target repository for which get_or_create_milestone returned a
\* handle, the table maps the name and the repository to that handle: no later
\* spec has removed it.
C14_HandleKept ==
    \A r \in Runs : AfterMilestones(r) =>
        \A c \in ReturnedHandle(r) :
            LET name == milestones_data[calls[c].idx].name
            IN /\ calls[c].repo \in DOMAIN HandlesOf(r, name)
               /\ HandlesOf(r, name)[calls[c].repo] =
                      [repo |-> calls[c].repo, number |-> calls[c].res]


\* the milestones of a repository, open or closed, with a title
Titled(k, name) ==
    { i \in Indexes(repo_milestones[k]) : repo_milestones[k][i].title = name }

AtIssueOf(r) == pc[r] \in {"get_issues", "create_issue"}

\* C17: the handles a run records under a repository are milestones of that
\* repository with the name they are recorded under; the handle a run passes
\* to the search and to the creation of an issue is none or one of the
\* repository of the task; and an issue with a milestone has the milestone of
\* its own repository that bears the milestone name of its task.
C17_NeverMixed ==
    \A r \in Runs :
        /\ \A name \in DOMAIN created_milestone_objects[r] :
             \A k \in DOMAIN HandlesOf(r, name) :
                OwnHandle(HandlesOf(r, name)[k], k, name)
        /\ AtIssueOf(r) =>
             \/ milestone_obj_for_issue[r] = NoMilestone
             \/ OwnHandle(milestone_obj_for_issue[r],
                          tasks_data[ti[r]].target_repository,
                          tasks_data[ti[r]].milestone_name)
        /\ \A x \in IssuesOf(r) :
             LET issue == repo_issues[x[1]][x[2]]
             IN \/ issue.milestone = 0
                \/ /\ issue.milestone \in Indexes(repo_milestones[x[1]])
                   /\ repo_milestones[x[1]][issue.milestone].title =
                          tasks_data[issue.task].milestone_name

\* C17 witness: a run is done that created an issue without milestone for a
\* task whose milestone it reconciled in the other repository only, the
\* repository of the task not being a target of the milestone spec
C17_Witness ==
    /\ pc[1] = "done"
    /\ \E x \in IssuesOf(1) : \E k \in REPO_MAP :
        LET name == tasks_data[repo_issues[x[1]][x[2]].task].milestone_name
        IN /\ name # ""
           /\ repo_issues[x[1]][x[2]].milestone = 0
           /\ Titled(x[1], name) = {}
           /\ k # x[1]
           /\ Titled(k, name) # {}
           /\ DOMAIN HandlesOf(1, name) = {k}


\* the board items that refer to an issue
ItemsFor(x) ==
    { i \in Indexes(project_items) :
        project_items[i].repo = x[1] /\ project_items[i].number = x[2] }

\* the issues a run created that no board item refers to
Unlinked(r) == { x \in IssuesOf(r) : ItemsFor(x) = {} }

\* C18: at every point at most one issue created by a run has no board item,
\* and it is the issue of the task the run is at, which the run is about to
\* link or whose linking ended the run; no issue has two items; when the run
\* is done every issue it created has exactly one item, added by that run.
C18_AtMostOneUnlinked ==
    \A r \in Runs :
        /\ Cardinality(Unlinked(r)) <= 1
        /\ \A x \in Unlinked(r) :
            /\ pc[r] \in {"project_list", "item_add", "aborted"}
            /\ x = <<tasks_data[ti[r]].target_repository, created_issue[r]>>
            /\ repo_issues[x[1]][x[2]].task = ti[r]
        /\ \A x \in IssuesOf(r) :
            /\ Cardinality(ItemsFor(x)) <= 1
            /\ \A i \in ItemsFor(x) : project_items[i].run = r
        /\ pc[r] = "done" => Unlinked(r) = {}

\* C18 witness: a run was ended by the failure of the board addition of its
\* second issue, the only one of its issues without item; the first has one
C18_Witness ==
    /\ pc[1] = "aborted"
    /\ LastCall(1).op = "item_add"
    /\ Cardinality(IssuesOf(1)) = 2
    /\ Cardinality(Unlinked(1)) = 1
    /\ Cardinality(ItemsOf(1)) = 1


\* two task specs of the plan, the second after the first, with the same title,
\* the same known repository and the same derived labels
SameTask(t, u) ==
    /\ t < u
    /\ tasks_data[t].title # ""
    /\ tasks_data[t].title = tasks_data[u].title
    /\ tasks_data[t].target_repository \in {"frontend", "backend"}
    /\ tasks_data[t].target_repository = tasks_data[u].target_repository
    /\ Range(labels_to_add(tasks_data[t])) = Range(labels_to_add(tasks_data[u]))

\* C19: when a run has searched for two such tasks with the same resolved
\* milestone, it has created one issue at most for the two, and when it
\* created the issue of the earlier one the search of the later one found a
\* duplicate and no creation and no board call were made for the later one.
C19_OneIssueForTwins ==
    \A r \in Runs : \A t \in Indexes(tasks_data) : \A u \in Indexes(tasks_data) :
        SameTask(t, u) =>
            \A c \in TaskCalls(r, t, {"get_issues"}) :
            \A d \in TaskCalls(r, u, {"get_issues"}) :
                (calls[c].ok /\ calls[d].ok /\ calls[c].arg = calls[d].arg) =>
                    /\ Cardinality(IssuesOfTask(r, t) \cup IssuesOfTask(r, u)) <= 1
                    /\ IssuesOfTask(r, t) # {} =>
                          /\ calls[d].res = 1
                          /\ TaskCalls(r, u, TaskOps \ {"get_issues"}) = {}

\* C19 witness: a run is done that created and linked the issue of the first
\* of two such tasks, with a milestone, and skipped the second as a duplicate
C19_Witness ==
    /\ pc[1] = "done"
    /\ Len(tasks_data) = 2
    /\ SameTask(1, 2)
    /\ \E x \in IssuesOfTask(1, 1) :
          repo_issues[x[1]][x[2]].milestone # 0 /\ ItemsFor(x) # {}
    /\ \E d \in TaskCalls(1, 2, {"get_issues"}) : calls[d].res = 1 /\ calls[d].arg # 0
    /\ IssuesOfTask(1, 2) = {}


\* the call by which a milestone or an issue of a repository was created
CreationOf(op, k, n) ==
    CHOOSE c \in Indexes(calls) :
        calls[c].op = op /\ calls[c].repo = k /\ calls[c].ok /\ calls[c].res = n

\* the listing a run made before a creation, for the same spec or task, that
\* returned and found nothing
ListingBefore(op, c) ==
    { l \in Indexes(calls) :
        /\ l < c /\ calls[l].op = op /\ calls[l].run = calls[c].run
        /\ calls[l].idx = calls[c].idx /\ calls[l].repo = calls[c].repo
        /\ calls[l].ok /\ calls[l].res = 0 }

\* two creations by different runs, each of which listed before the other created
Raced(listOp, c, d) ==
    /\ calls[c].run # calls[d].run
    /\ \E l \in ListingBefore(listOp, c) : l < d
    /\ \E l \in ListingBefore(listOp, d) : l < c

TwinMilestones(k, i, j) ==
    /\ i < j
    /\ repo_milestones[k][i].title = repo_milestones[k][j].title

TwinIssues(k, i, j) ==
    /\ i < j
    /\ repo_issues[k][i].state = "open" /\ repo_issues[k][j].state = "open"
    /\ repo_issues[k][i].title = repo_issues[k][j].title
    /\ repo_issues[k][i].labels = repo_issues[k][j].labels
    /\ repo_issues[k][i].milestone = repo_issues[k][j].milestone

\* C13: with two runs of one plan side by side, two milestones with one title
\* in a repository, and two open issues with one title, the same labels and the
\* same milestone, come from nothing but the race of the read-then-create
\* steps: they were created by the two runs, each of which had listed the
\* repository and found nothing before the other one created.
C13_DuplicatesByRace ==
    \A k \in REPO_MAP :
        /\ \A i \in Indexes(repo_milestones[k]) : \A j \in Indexes(repo_milestones[k]) :
              TwinMilestones(k, i, j) =>
                  Raced("get_milestones", CreationOf("create_milestone", k, i),
                                          CreationOf("create_milestone", k, j))
        /\ \A i \in Indexes(repo_issues[k]) : \A j \in Indexes(repo_issues[k]) :
              TwinIssues(k, i, j) =>
                  Raced("get_issues", CreationOf("create_issue", k, i),
                                      CreationOf("create_issue", k, j))

\* C13 witness: both runs are done, each has created a milestone with the one
\* title in one repository, and each has created and linked an open issue with
\* the one title, the same labels and the same milestone in one repository
C13_Witness ==
    /\ concurrent
    /\ pc[1] = "done" /\ pc[2] = "done"
    /\ \E k \in REPO_MAP :
        \E i \in Indexes(repo_milestones[k]) : \E j \in Indexes(repo_milestones[k]) :
            /\ TwinMilestones(k, i, j)
            /\ repo_milestones[k][i].run # repo_milestones[k][j].run
    /\ \E k \in REPO_MAP :
        \E i \in Indexes(repo_issues[k]) : \E j \in Indexes(repo_issues[k]) :
            /\ TwinIssues(k, i, j)
            /\ repo_issues[k][i].run # repo_issues[k][j].run
            /\ repo_issues[k][i].milestone # 0
    /\ Len(project_items) = 2


\* the priority an issue was created with, "" when it has no priority label
PriorityOf(issue) ==
    IF \E l \in issue.labels : l[1] = "priority"
    THEN (CHOOSE l \in issue.labels : l[1] = "priority")[2]
    ELSE ""

\* the second run is at a task for which the first run created an issue, the
\* only issue of the repository with the title and still open, and the task
\* has another priority now than the issue was created with
Resubmitted(t) ==
    /\ pc[2] = "get_issues" /\ ti[2] = t
    /\ \E x \in IssuesOfTask(1, t) :
        /\ PriorityOf(repo_issues[x[1]][x[2]]) # tasks_data[t].priority
        /\ repo_issues[x[1]][x[2]].state = "open"
        /\ repo_issues[x[1]][x[2]].title = tasks_data[t].title
        /\ Namesakes(2) = {x[2]}

\* C16 as stated: a task whose issue an earlier run created and that is
\* submitted again with a changed priority is not recognised as a duplicate:
\* the search of the later run is followed by the creation of a second issue.
C16_Original ==
    [][ \A t \in Indexes(tasks_data) :
          (Resubmitted(t) /\ SearchStep(2)) => pc'[2] = "create_issue" ]_vars

\* C16 amended: a task whose issue an earlier run created and that is submitted
\* again with another priority than before, not with the priority removed, is
\* not recognised as a duplicate: the search of the later run is followed by
\* the creation of a second issue, which is open and has the same title in the
\* same repository.
C16_ChangedPriorityCreates ==
    [][ /\ \A t \in Indexes(tasks_data) :
            (Resubmitted(t) /\ tasks_data[t].priority # "" /\ SearchStep(2))
                => pc'[2] = "create_issue"
        /\ (pc[2] = "create_issue" /\ pc'[2] = "project_list") =>
              LET k == tasks_data[ti[2]].target_repository
                  new == repo_issues'[k][Len(repo_issues'[k])]
              IN /\ Len(repo_issues'[k]) = Len(repo_issues[k]) + 1
                 /\ new.state = "open" /\ new.title = tasks_data[ti[2]].title
                 /\ PriorityOf(new) = tasks_data[ti[2]].priority ]_vars

\* C16 witness: the second run is done and a repository has two open issues
\* with one title for one task, that of the first run with the old priority and
\* that of the second run with the new one
C16_Witness ==
    /\ pc[2] = "done"
    /\ \E t \in Indexes(tasks_data) :
        \E x \in IssuesOfTask(1, t) : \E y \in IssuesOfTask(2, t) :
            /\ x[1] = y[1]
            /\ repo_issues[x[1]][x[2]].title = repo_issues[y[1]][y[2]].title
            /\ repo_issues[x[1]][x[2]].state = "open"
            /\ repo_issues[y[1]][y[2]].state = "open"
            /\ PriorityOf(repo_issues[x[1]][x[2]]) = "high"
            /\ PriorityOf(repo_issues[y[1]][y[2]]) = "low"
            /\ repo_issues[x[1]][x[2]].milestone = repo_issues[y[1]][y[2]].milestone

====
